---- MODULE Spec2Model ----
(***************************************************************************)
(* A model of src/app.py: the certificate composer                        *)
(* (ProfessionalCertificateGenerator.create_certificate_html), the status  *)
(* badge classification (get_status_badge_style), the render pipeline      *)
(* (create_certificate) and the Flask request handlers.                    *)
(*                                                                         *)
(* Text is modelled by TLA+ strings; str.lower(), str.upper(), slicing and *)
(* the `in` substring test are computed character by character.            *)
(***************************************************************************)
EXTENDS Integers, Sequences, FiniteSets, TLC

VARIABLES
    st_pc, st_text, st_result,            \* harness of get_status_badge_style
    c_pc, c_data, c_now, c_uuid, c_html,  \* harness of create_certificate_html
    c_now2, c_html2,                      \* the same, for a second call
    s_pc, s_env, s_config,                \* harness of setup_wkhtmltopdf_config
    pdfkit_config,      \* cert_generator.pdfkit_config
    options,            \* cert_generator.options
    fs,                 \* the temporary files that exist: name -> owner, content
    pc,                 \* per request: where its handler stands
    op,                 \* per request: the route it came in on
    body,               \* per request: what request.get_json() will give
    html_content,       \* per request: the composed document, once composed
    created,            \* per request: the file NamedTemporaryFile made
    temp_html_path,     \* per request: the local of that name, once bound
    pdf_data,           \* per request: what pdfkit.from_file returned
    render_exc,         \* per request: what pdfkit.from_file raised
    returned,           \* per request: what create_certificate returned
    exc,                \* per request: the exception in flight
    compose_calls,      \* per request: the calls of create_certificate_html so far
    render_calls,       \* per request: the calls of pdfkit.from_file so far
    resp                \* per request: the response sent

statusVars == <<st_pc, st_text, st_result>>
composeVars == <<c_pc, c_data, c_now, c_uuid, c_html, c_now2, c_html2>>
setupVars == <<s_pc, s_env, s_config>>
configVars == <<pdfkit_config, options>>
callVars == <<compose_calls, render_calls>>
requestVars == <<pc, op, body, html_content, created, temp_html_path, pdf_data,
                 render_exc, returned, exc, resp, callVars>>
serviceVars == <<configVars, fs, requestVars>>
vars == <<statusVars, composeVars, setupVars, serviceVars>>

----------------------------------------------------------------------------
(* Bounds of the model. *)

\* a status text is the concatenation of at most MaxParts fragments
MaxParts == 2
\* an attribute set holds at most MaxExtra of the plain fields
MaxExtra == 1
\* the requests the service handles, possibly at the same time
NumRequests == 2

----------------------------------------------------------------------------
(* Python strings. *)

\* Python's None, and a present value, for an optional text
None == <<>>
Some(s) == <<s>>

LowerTable ==
    [A |-> "a", B |-> "b", C |-> "c", D |-> "d", E |-> "e", F |-> "f",
     G |-> "g", H |-> "h", I |-> "i", J |-> "j", K |-> "k", L |-> "l",
     M |-> "m", N |-> "n", O |-> "o", P |-> "p", Q |-> "q", R |-> "r",
     S |-> "s", T |-> "t", U |-> "u", V |-> "v", W |-> "w", X |-> "x",
     Y |-> "y", Z |-> "z"]

UpperTable ==
    [a |-> "A", b |-> "B", c |-> "C", d |-> "D", e |-> "E", f |-> "F",
     g |-> "G", h |-> "H", i |-> "I", j |-> "J", k |-> "K", l |-> "L",
     m |-> "M", n |-> "N", o |-> "O", p |-> "P", q |-> "Q", r |-> "R",
     s |-> "S", t |-> "T", u |-> "U", v |-> "V", w |-> "W", x |-> "X",
     y |-> "Y", z |-> "Z"]

\* one character of str.lower(): only cased letters change
LowerChar(ch) == IF ch \in DOMAIN LowerTable THEN LowerTable[ch] ELSE ch

\* one character of str.upper()
UpperChar(ch) == IF ch \in DOMAIN UpperTable THEN UpperTable[ch] ELSE ch

RECURSIVE lower(_)
\* str.lower()
lower(s) ==
    IF Len(s) = 0 THEN ""
    ELSE LowerChar(SubSeq(s, 1, 1)) \o lower(SubSeq(s, 2, Len(s)))

RECURSIVE upper(_)
\* str.upper()
upper(s) ==
    IF Len(s) = 0 THEN ""
    ELSE UpperChar(SubSeq(s, 1, 1)) \o upper(SubSeq(s, 2, Len(s)))

\* Python's  tok in s  for two strings
Contains(tok, s) ==
    \E i \in 1..(Len(s) - Len(tok) + 1) : SubSeq(s, i, i + Len(tok) - 1) = tok

\* Python's  s[:n]
Prefix(s, n) == SubSeq(s, 1, IF Len(s) < n THEN Len(s) ELSE n)

----------------------------------------------------------------------------
(* get_status_badge_style, src/app.py lines 71-82. *)

STYLE_NONE == "background: #6c757d; color: white;"
STYLE_PASS == "background: linear-gradient(45deg, #28a745, #20c997); color: white; box-shadow: 0 4px 15px rgba(40, 167, 69, 0.4);"
STYLE_FAIL == "background: linear-gradient(45deg, #dc3545, #e74c3c); color: white; box-shadow: 0 4px 15px rgba(220, 53, 69, 0.4);"
STYLE_OTHER == "background: linear-gradient(45deg, #ffc107, #fd7e14); color: #212529; box-shadow: 0 4px 15px rgba(255, 193, 7, 0.4);"

\* Python's  not status  for None or a string
Falsy(status) == status = None \/ status[1] = ""

\* a plausible slip: the failure vocabulary is tested before the success one
get_status_badge_style_FailFirst(status) ==
    IF Falsy(status) THEN STYLE_NONE
    ELSE LET status_lower == lower(status[1])
         IN  IF Contains("fail", status_lower) \/ Contains("error", status_lower)
             THEN STYLE_FAIL
             ELSE IF \/ Contains("pass", status_lower)
                     \/ Contains("success", status_lower)
                     \/ Contains("complete", status_lower)
             THEN STYLE_PASS
             ELSE STYLE_OTHER

get_status_badge_style(status) ==
    IF Falsy(status) THEN STYLE_NONE
    ELSE LET status_lower == lower(status[1])
         IN  IF \/ Contains("pass", status_lower)
                \/ Contains("success", status_lower)
                \/ Contains("complete", status_lower)
             THEN STYLE_PASS
             ELSE IF Contains("fail", status_lower) \/ Contains("error", status_lower)
             THEN STYLE_FAIL
             ELSE STYLE_OTHER

----------------------------------------------------------------------------
(* The status texts the classification is applied to. *)

StatusFragments ==
    {"pass", "PASSED", "Fail", "failed", "ERROR", "error", "success",
     "Complete", "pa", "ss", "fa", "il", "ok", " - ", " then "}

RECURSIVE TextsUpTo(_)
TextsUpTo(n) ==
    IF n = 0 THEN {""}
    ELSE LET shorter == TextsUpTo(n - 1)
         IN  shorter \cup {t \o f : t \in shorter, f \in StatusFragments}

StatusTexts == TextsUpTo(MaxParts)

\* the harness of get_status_badge_style, not in use
StatusParked ==
    /\ st_pc = "parked"
    /\ st_text = None
    /\ st_result = ""

StatusInit ==
    /\ st_pc = "call"
    /\ st_text \in {None} \cup {Some(t) : t \in StatusTexts}
    /\ st_result = ""

\* one call of get_status_badge_style
Classify ==
    /\ st_pc = "call"
    /\ st_result' = get_status_badge_style(st_text)
    /\ st_pc' = "returned"
    /\ UNCHANGED <<st_text, composeVars, setupVars, serviceVars>>

StatusNext == Classify

----------------------------------------------------------------------------
(* Python dicts (the attribute set) and the values the composer draws from *)
(* its environment.                                                        *)

\* dict.get(key, default)
Get(data, key, default) == IF key \in DOMAIN data THEN data[key] ELSE default

EmptyDict == [k \in {} |-> ""]

\* d with key k set to v
With(d, k, v) == [x \in DOMAIN d \cup {k} |-> IF x = k THEN v ELSE d[x]]

Digit == <<"0", "1", "2", "3", "4", "5", "6", "7", "8", "9">>

\* %m, %d, %H, %M, %S: two digits, zero padded
Pad2(n) == Digit[(n \div 10) + 1] \o Digit[(n % 10) + 1]

\* %Y: four digits
Pad4(n) == Pad2(n \div 100) \o Pad2(n % 100)

\* datetime.strftime('%Y-%m-%d %H:%M:%S')
strftime_display(t) ==
    Pad4(t.year) \o "-" \o Pad2(t.month) \o "-" \o Pad2(t.day) \o " " \o
    Pad2(t.hour) \o ":" \o Pad2(t.minute) \o ":" \o Pad2(t.second)

\* the readings datetime.now() can give
Clocks ==
    {[year |-> 2024, month |-> 3, day |-> 15, hour |-> 9, minute |-> 5, second |-> 7],
     [year |-> 2025, month |-> 11, day |-> 30, hour |-> 23, minute |-> 59, second |-> 58]}

\* the values uuid.uuid4().hex can give: 32 lower-case hex digits
UuidHex ==
    {"3f2a9c1be4d04f6a8b7c0d1e2f3a4b5c", "00ff17aab1c2d3e4f5061728394a5b6c"}

----------------------------------------------------------------------------
(* create_certificate_html, src/app.py lines 84-757.  The document is the  *)
(* template's fixed text with its slots filled in; it is modelled by the   *)
(* value of every slot.                                                    *)

\* the fields interpolated as data.get(<field>, 'N/A'), lines 525-695
PlainFields ==
    {"technician_name",
     "device_type", "manufacturer", "model", "serial_number", "asset_tag",
     "capacity", "interface", "firmware_version",
     "sanitization_method", "standard_compliance", "number_of_passes",
     "algorithm", "start_time", "duration", "software_used", "software_version",
     "pre_wipe_verification", "post_wipe_verification", "verification_method",
     "sectors_processed", "data_remnants", "os_installation_status",
     "os_version", "boot_test_result",
     "customer_name", "work_order", "location", "witness_name", "temperature",
     "humidity", "notes"}

\* a plausible slip: an absent field is left blank
PlainSlot_Blank(data, field) == Get(data, field, "")

\* {data.get(field, 'N/A')}
PlainSlot(data, field) == Get(data, field, "N/A")

\* {data.get('technician_name', 'John Smith')}, {data.get('supervisor_name', 'Jane Doe')}
SignatureName(data, field, placeholder) == Get(data, field, placeholder)

\* a plausible slip: the default is the whole timestamp
SignatureDate_Unsliced(data, field, issue_date) == Get(data, field, issue_date)

\* {data.get('technician_date', issue_date[:10])}
SignatureDate(data, field, issue_date) == Get(data, field, Prefix(issue_date, 10))

\* f'CERT-{uuid.uuid4().hex[:8].upper()}'
SynthesizedId(uuid_hex) == "CERT-" \o upper(Prefix(uuid_hex, 8))

\* a plausible slip: every document gets a new identifier
ResolveCertId_AlwaysNew(data, uuid_hex) == SynthesizedId(uuid_hex)

\* cert_id = data.get('certificate_id', f'CERT-...'), line 89
ResolveCertId(data, uuid_hex) == Get(data, "certificate_id", SynthesizedId(uuid_hex))

\* a plausible slip: the display timestamp is always the clock's
ResolveIssueDate_Now(data, current_time) == current_time

\* issue_date = data.get('issue_date', current_time), line 88
ResolveIssueDate(data, current_time) == Get(data, "issue_date", current_time)

\* final_status = data.get('final_status', 'VERIFIED'), line 90
ResolveFinalStatus(data) == Get(data, "final_status", "VERIFIED")

\* a plausible slip: the link shows the identifier as it is
VerificationSlot_Raw(cert_id) == cert_id

\* secure-verify.com/{cert_id.lower()}, line 748
VerificationSlot(cert_id) == lower(cert_id)

\* a plausible slip: the badge is styled from the raw attribute, not from
\* the resolved status text
BadgeStyle_Raw(data, final_status) ==
    get_status_badge_style(IF "final_status" \in DOMAIN data
                           THEN Some(data["final_status"]) ELSE None)

\* status_badge_style = self.get_status_badge_style(final_status), line 91
BadgeStyle(data, final_status) == get_status_badge_style(Some(final_status))

create_certificate_html(data, now, uuid_hex) ==
    LET current_time == strftime_display(now)
        issue_date == ResolveIssueDate(data, current_time)
        cert_id == ResolveCertId(data, uuid_hex)
        final_status == ResolveFinalStatus(data)
        status_badge_style == BadgeStyle(data, final_status)
    IN  [title |-> cert_id,
         status_badge_style |-> status_badge_style,
         cert_id_field |-> cert_id,
         issue_date_field |-> issue_date,
         status_text |-> final_status,
         fields |-> [f \in PlainFields |-> PlainSlot(data, f)],
         signature_technician_name |-> SignatureName(data, "technician_name", "John Smith"),
         signature_technician_date |-> SignatureDate(data, "technician_date", issue_date),
         signature_supervisor_name |-> SignatureName(data, "supervisor_name", "Jane Doe"),
         signature_supervisor_date |-> SignatureDate(data, "supervisor_date", issue_date),
         qr_code |-> cert_id,
         generated |-> current_time,
         document_id |-> cert_id,
         verification |-> VerificationSlot(cert_id)]

\* a plausible slip: the identifier is read as data['certificate_id']
SubscriptKeys_CertId == {"certificate_id"}

\* the keys the composer reads as data[key], which raises KeyError when the
\* key is absent: every read of lines 88-733 is data.get(key, default)
SubscriptKeys == {}

\* the keys whose read raises for this attribute set
KeyErrors(data) == SubscriptKeys \ DOMAIN data

\* the value of html_content before the composer has returned
NoHtml == [title |-> "", status_badge_style |-> "", cert_id_field |-> "",
           issue_date_field |-> "", status_text |-> "",
           fields |-> [f \in PlainFields |-> ""],
           signature_technician_name |-> "", signature_technician_date |-> "",
           signature_supervisor_name |-> "", signature_supervisor_date |-> "",
           qr_code |-> "", generated |-> "", document_id |-> "", verification |-> ""]

----------------------------------------------------------------------------
(* The attribute sets the composer is applied to. *)

\* the sample attribute set of the source, lines 899-937, and a value for
\* each of the two signature dates
SampleData ==
    [certificate_id |-> "CERT-2024-FLAGSHIP-001",
     issue_date |-> "2024-03-15 14:30:00",
     verification_date |-> "2024-03-15",
     technician_name |-> "Dr. Sarah Johnson",
     supervisor_name |-> "Michael Chen",
     device_type |-> "Enterprise SSD",
     manufacturer |-> "Samsung",
     model |-> "SSD 990 PRO",
     serial_number |-> "S6M2NG0R987654",
     asset_tag |-> "CORP-SSD-12345",
     capacity |-> "2TB",
     interface |-> "NVMe PCIe 4.0",
     firmware_version |-> "4B2QGXA7",
     sanitization_method |-> "Cryptographic Erase + Multi-Pass Overwrite",
     standard_compliance |-> "NIST SP 800-88 Rev. 1, DoD 5220.22-M",
     number_of_passes |-> "3",
     algorithm |-> "AES-256 + Gutmann Method",
     start_time |-> "2024-03-15 08:00:00",
     duration |-> "2 hours 15 minutes",
     software_used |-> "SecureErase Pro Enterprise",
     software_version |-> "3.2.1",
     pre_wipe_verification |-> "Confidential Data Detected",
     post_wipe_verification |-> "No Data Remnants Found",
     verification_method |-> "Hexadecimal Deep Scan + Entropy Analysis",
     sectors_processed |-> "3,907,050,336",
     data_remnants |-> "None Detected (0.00%)",
     os_installation_status |-> "Windows 11 Enterprise Installed",
     os_version |-> "Windows 11 Enterprise 22H2 Build 22621",
     boot_test_result |-> "Successful - All Systems Operational",
     final_status |-> "PASSED",
     customer_name |-> "GlobalTech Industries",
     work_order |-> "WO-2024-SEC-001",
     location |-> "Secure Data Center - Building A",
     witness_name |-> "Alex Rodriguez (Security Officer)",
     temperature |-> "21 C",
     humidity |-> "45% RH",
     notes |-> "Enterprise-grade sanitization completed.",
     technician_date |-> "2024-03-16",
     supervisor_date |-> "2024-03-17"]

\* the keys that have a resolution rule of their own
CoreKeys == {"certificate_id", "issue_date", "final_status"}

ExtraKeys == DOMAIN SampleData \ CoreKeys

CertIdValues == {"", "CERT-TEST-1", "Cert-2024-ab"}
IssueDateValues == {"2024-03-15 14:30:00", "2024"}
FinalStatusValues ==
    {"", "PASSED", "Failed - error", "pending", "passed then failed", "Completed"}

\* d, with key k either absent or set to one of values
Optionally(ds, k, values) == ds \cup {With(d, k, v) : d \in ds, v \in values}

RECURSIVE ExtrasUpTo(_)
\* the attribute sets over ExtraKeys with at most n keys
ExtrasUpTo(n) ==
    IF n = 0 THEN {EmptyDict}
    ELSE LET fewer == ExtrasUpTo(n - 1)
         IN  fewer \cup {With(d, k, SampleData[k]) : d \in fewer, k \in ExtraKeys}

AttributeSets ==
    Optionally(Optionally(Optionally(ExtrasUpTo(MaxExtra),
        "certificate_id", CertIdValues),
        "issue_date", IssueDateValues),
        "final_status", FinalStatusValues)

\* the harness of create_certificate_html, not in use
ComposeParked ==
    /\ c_pc = "parked"
    /\ c_data = EmptyDict
    /\ c_now = CHOOSE t \in Clocks : TRUE
    /\ c_uuid = CHOOSE u \in UuidHex : TRUE
    /\ c_html = NoHtml
    /\ c_now2 = CHOOSE t \in Clocks : TRUE
    /\ c_html2 = NoHtml

ComposeInit ==
    /\ c_pc = "call"
    /\ c_data \in AttributeSets
    /\ c_now = CHOOSE t \in Clocks : TRUE
    /\ c_uuid = CHOOSE u \in UuidHex : TRUE
    /\ c_html = NoHtml
    /\ c_now2 = CHOOSE t \in Clocks : TRUE
    /\ c_html2 = NoHtml

\* one call of create_certificate_html: datetime.now() and uuid.uuid4() give
\* any of their values
Compose ==
    /\ c_pc = "call"
    /\ \E now \in Clocks, u \in UuidHex :
          /\ c_now' = now
          /\ c_uuid' = u
          /\ c_html' = IF KeyErrors(c_data) = {}
                       THEN create_certificate_html(c_data, now, u)
                       ELSE NoHtml
    /\ c_pc' = IF KeyErrors(c_data) = {} THEN "returned" ELSE "raised"
    /\ UNCHANGED <<c_data, c_now2, c_html2, statusVars, setupVars, serviceVars>>

\* the same generator called once more with the same attribute set: a later
\* reading of the clock, another uuid4
ComposeAgain ==
    /\ c_pc = "returned"
    /\ \E now \in Clocks, u \in UuidHex :
          /\ c_now2' = now
          /\ c_html2' = create_certificate_html(c_data, now, u)
    /\ c_pc' = "returned_twice"
    /\ UNCHANGED <<c_data, c_now, c_uuid, c_html, statusVars, setupVars, serviceVars>>

ComposeNext == Compose \/ ComposeAgain

----------------------------------------------------------------------------
(* The generator's configuration, src/app.py lines 20-69. *)

\* self.options, lines 25-40; a flag without a value is None
RendererOptions ==
    [page_size |-> "A4", orientation |-> "Portrait",
     margin_top |-> "0.5in", margin_right |-> "0.5in",
     margin_bottom |-> "0.5in", margin_left |-> "0.5in",
     encoding |-> "UTF-8", no_outline |-> None,
     enable_local_file_access |-> None, print_media_type |-> None,
     disable_smart_shrinking |-> None,
     dpi |-> 300, image_quality |-> 100, minimum_font_size |-> 8]

\* possible_paths, lines 47-52, for the USERNAME of the environment
possible_paths(username) ==
    <<"C:\\Program Files\\wkhtmltopdf\\bin\\wkhtmltopdf.exe",
      "C:\\Program Files (x86)\\wkhtmltopdf\\bin\\wkhtmltopdf.exe",
      "C:\\Users\\" \o username \o "\\AppData\\Local\\Programs\\wkhtmltopdf\\bin\\wkhtmltopdf.exe",
      "C:\\wkhtmltopdf\\bin\\wkhtmltopdf.exe">>

\* a plausible slip: the loop has no break, so the last location found wins
setup_wkhtmltopdf_config_NoBreak(env) ==
    IF env.platform = "Windows"
    THEN LET paths == possible_paths(env.username)
             found == {i \in 1..Len(paths) : paths[i] \in env.existing}
         IN  IF found # {}
             THEN Some([wkhtmltopdf |->
                          paths[CHOOSE i \in found : \A j \in found : i >= j]])
             ELSE None
    ELSE None

\* setup_wkhtmltopdf_config: the value it leaves in self.pdfkit_config
setup_wkhtmltopdf_config(env) ==
    IF env.platform = "Windows"
    THEN LET paths == possible_paths(env.username)
             found == {i \in 1..Len(paths) : paths[i] \in env.existing}
         IN  IF found # {}
             THEN Some([wkhtmltopdf |->
                          paths[CHOOSE i \in found : \A j \in found : i <= j]])
             ELSE None
    ELSE None

\* a renderer installed where the generator does not look
OtherPath == "/usr/local/bin/wkhtmltopdf"

\* the machines a generator is constructed on: on Windows any of the listed
\* locations may hold the renderer, on the other platforms none of these
\* paths can exist
Machines ==
    {[platform |-> "Windows", username |-> u, existing |-> e] :
        u \in {"svc", ""},
        e \in SUBSET ({possible_paths("svc")[i] : i \in 1..4} \cup {OtherPath})}
    \cup
    {[platform |-> p, username |-> "", existing |-> e] :
        p \in {"Linux", "Darwin"}, e \in SUBSET {OtherPath}}

SetupParked ==
    /\ s_pc = "parked"
    /\ s_env = CHOOSE m \in Machines : m.existing = {}  /\ m.platform = "Linux"
    /\ s_config = None

\* before ProfessionalCertificateGenerator() is called, line 800
SetupInit ==
    /\ s_pc = "construct"
    /\ s_env \in Machines
    /\ s_config = None

\* __init__, lines 19-40: setup_wkhtmltopdf_config has no raise and no call
\* that fails on a missing renderer, so the constructor returns
Construct ==
    /\ s_pc = "construct"
    /\ s_config' = setup_wkhtmltopdf_config(s_env)
    /\ s_pc' = "constructed"
    /\ UNCHANGED <<s_env, statusVars, composeVars, serviceVars>>

SetupNext == Construct

\* the machines the service is started on
Environments ==
    {[platform |-> "Linux", username |-> "", existing |-> {}],
     [platform |-> "Windows", username |-> "svc", existing |-> {}],
     [platform |-> "Windows", username |-> "svc",
      existing |-> {possible_paths("svc")[2], possible_paths("svc")[4]}]}

----------------------------------------------------------------------------
(* The requests. *)

Requests == 1..NumRequests

Routes == {"generate_certificate", "generate_certificate_file",
           "preview_certificate", "health_check", "test_endpoint"}

\* the routes that go through create_certificate
RenderRoutes == {"generate_certificate", "generate_certificate_file"}

\* the attribute sets sent to the service
ServiceData ==
    {EmptyDict,
     [certificate_id |-> "CERT-TEST-1", final_status |-> "PASSED", device_type |-> "SSD"],
     [device_type |-> "SSD"]}

\* what request.get_json() meets: a body that is no JSON (it raises), the
\* JSON null (it returns None), or a JSON object (it returns the dict)
Bodies ==
    {[kind |-> "malformed", data |-> EmptyDict], [kind |-> "null", data |-> EmptyDict]}
    \cup {[kind |-> "dict", data |-> d] : d \in ServiceData}

NoBody == [kind |-> "null", data |-> EmptyDict]

\* a plausible slip: the test is  data is None
NoData_NoneOnly(b) == b.kind = "null"

\* Python's  not data  for what get_json returned
NoData(b) == b.kind = "null" \/ DOMAIN b.data = {}

\* len(data)
len(data) == Cardinality(DOMAIN data)

\* exceptions: where they were raised, and their str()
Exception(origin, text) == [origin |-> origin, text |-> text]

BadRequest == Exception("get_json", "400 Bad Request: Failed to decode JSON object")
TempFileError == Exception("NamedTemporaryFile", "[Errno 28] No space left on device")
WriteError ==
    Exception("write", "'utf-8' codec can't encode character '\\ud800': surrogates not allowed")
UnlinkError ==
    Exception("unlink", "[WinError 32] The process cannot access the file because it is being used by another process")

\* what the external renderer reports when it fails
RenderErrors ==
    {Exception("from_file", "wkhtmltopdf reported an error: Exit with code 1"),
     Exception("from_file", "No wkhtmltopdf executable found")}

\* the names tempfile can give: unique among the files that exist
TempNames == {"tmp" \o Digit[i + 1] \o ".html" : i \in 1..NumRequests}

\* the renderer is a black box: its output is determined by the document it
\* read and its parameters
Pdf(document, opts) == [document |-> document, options |-> opts]

\* base64.b64encode(...).decode('utf-8')
b64encode(bytes) == [base64_of |-> bytes]

\* datetime.strftime('%Y%m%d_%H%M%S')
strftime_file(t) ==
    Pad4(t.year) \o Pad2(t.month) \o Pad2(t.day) \o "_" \o
    Pad2(t.hour) \o Pad2(t.minute) \o Pad2(t.second)

\* datetime.isoformat(), to the second
isoformat(t) ==
    Pad4(t.year) \o "-" \o Pad2(t.month) \o "-" \o Pad2(t.day) \o "T" \o
    Pad2(t.hour) \o ":" \o Pad2(t.minute) \o ":" \o Pad2(t.second)

\* responses: the status code, and a JSON object, a file, or the framework's
\* own error page
JsonResponse(status, json) ==
    [kind |-> "json", status |-> status, json |-> json, file |-> None, download_name |-> ""]

FileResponse(file, name) ==
    [kind |-> "file", status |-> 200, json |-> EmptyDict, file |-> Some(file),
     download_name |-> name]

FrameworkError(status) ==
    [kind |-> "page", status |-> status, json |-> EmptyDict, file |-> None,
     download_name |-> ""]

NoResponse ==
    [kind |-> "none", status |-> 0, json |-> EmptyDict, file |-> None, download_name |-> ""]

ServiceInit ==
    /\ \E env \in Environments : pdfkit_config = setup_wkhtmltopdf_config(env)
    /\ options = RendererOptions
    /\ fs = [n \in {} |-> None]
    /\ pc = [r \in Requests |-> "idle"]
    /\ op = [r \in Requests |-> "health_check"]
    /\ body = [r \in Requests |-> NoBody]
    /\ html_content = [r \in Requests |-> None]
    /\ created = [r \in Requests |-> ""]
    /\ temp_html_path = [r \in Requests |-> ""]
    /\ pdf_data = [r \in Requests |-> None]
    /\ render_exc = [r \in Requests |-> None]
    /\ returned = [r \in Requests |-> None]
    /\ exc = [r \in Requests |-> None]
    /\ resp = [r \in Requests |-> NoResponse]
    /\ compose_calls = [r \in Requests |-> 0]
    /\ render_calls = [r \in Requests |-> 0]

\* the service, not in use
ServiceParked ==
    /\ pdfkit_config = None
    /\ options = RendererOptions
    /\ fs = [n \in {} |-> None]
    /\ pc = [r \in Requests |-> "parked"]
    /\ op = [r \in Requests |-> "health_check"]
    /\ body = [r \in Requests |-> NoBody]
    /\ html_content = [r \in Requests |-> None]
    /\ created = [r \in Requests |-> ""]
    /\ temp_html_path = [r \in Requests |-> ""]
    /\ pdf_data = [r \in Requests |-> None]
    /\ render_exc = [r \in Requests |-> None]
    /\ returned = [r \in Requests |-> None]
    /\ exc = [r \in Requests |-> None]
    /\ resp = [r \in Requests |-> NoResponse]
    /\ compose_calls = [r \in Requests |-> 0]
    /\ render_calls = [r \in Requests |-> 0]

\* a request comes in on one of the routes
Receive(r) ==
    /\ pc[r] = "idle"
    /\ \E route \in Routes, b \in Bodies :
          /\ route = "health_check" => b = NoBody
          /\ op' = [op EXCEPT ![r] = route]
          /\ body' = [body EXCEPT ![r] = b]
    /\ pc' = [pc EXCEPT ![r] = "handler"]
    /\ UNCHANGED <<statusVars, composeVars, setupVars, callVars, configVars, fs, html_content, created,
                   temp_html_path, pdf_data, render_exc, returned, exc, resp>>

----------------------------------------------------------------------------
(* The handlers of generate_certificate, generate_certificate_file and     *)
(* preview_certificate, lines 802-877, and create_certificate, lines       *)
(* 759-797, step by step.                                                   *)

\* data = request.get_json(); if not data: return ..., 400
ParseRequest(r) ==
    /\ pc[r] = "handler"
    /\ op[r] \in RenderRoutes \cup {"preview_certificate"}
    /\ IF body[r].kind = "malformed"
       THEN /\ exc' = [exc EXCEPT ![r] = Some(BadRequest)]
            /\ pc' = [pc EXCEPT ![r] = "except"]
            /\ resp' = resp
       ELSE IF NoData(body[r])
       THEN /\ resp' = [resp EXCEPT ![r] =
                           JsonResponse(400, [error |-> "No data provided"])]
            /\ pc' = [pc EXCEPT ![r] = "done"]
            /\ exc' = exc
       ELSE /\ pc' = [pc EXCEPT ![r] = "compose"]
            /\ UNCHANGED <<exc, resp>>
    /\ UNCHANGED <<statusVars, composeVars, setupVars, callVars, configVars, fs, op, body, html_content,
                   created, temp_html_path, pdf_data, render_exc, returned>>

\* a plausible slip: the preview goes through the render pipeline too
AfterCompose_AlwaysRender(route) == "tempfile"

\* where the composed document goes: create_certificate goes on to write it
\* to a temporary file (line 767), preview_certificate returns it (line 866)
AfterCompose(route) == IF route \in RenderRoutes THEN "tempfile" ELSE "respond"

\* html_content = self.create_certificate_html(data), lines 763 and 864
ComposeHtml(r) ==
    /\ pc[r] = "compose"
    /\ \E now \in Clocks, u \in UuidHex :
          html_content' = [html_content EXCEPT ![r] =
                              Some(create_certificate_html(body[r].data, now, u))]
    /\ compose_calls' = [compose_calls EXCEPT ![r] = @ + 1]
    /\ pc' = [pc EXCEPT ![r] = AfterCompose(op[r])]
    /\ UNCHANGED <<statusVars, composeVars, setupVars, render_calls, configVars, fs, op,
                   body, created, temp_html_path, pdf_data, render_exc, returned, exc,
                   resp>>

\* a plausible slip: every call writes to one fixed file
FreshNames_Fixed == {"tmp1.html"}

\* the names NamedTemporaryFile can pick: it opens the file exclusively, so
\* never under the name of a file that exists
FreshNames == TempNames \ DOMAIN fs

\* tempfile.NamedTemporaryFile(mode='w', suffix='.html', delete=False, ...),
\* line 767: a new file under a name no existing file has, or an OSError
CreateTempFile(r) ==
    /\ pc[r] = "tempfile"
    /\ \/ \E name \in FreshNames :
             /\ fs' = [n \in DOMAIN fs \cup {name} |->
                          IF n = name THEN [owner |-> r, content |-> None] ELSE fs[n]]
             /\ created' = [created EXCEPT ![r] = name]
             /\ pc' = [pc EXCEPT ![r] = "write"]
             /\ exc' = exc
       \/ /\ exc' = [exc EXCEPT ![r] = Some(TempFileError)]
          /\ pc' = [pc EXCEPT ![r] = "pipeline_except"]
          /\ UNCHANGED <<fs, created>>
    /\ UNCHANGED <<statusVars, composeVars, setupVars, callVars, configVars, op, body, html_content,
                   temp_html_path, pdf_data, render_exc, returned, resp>>

\* temp_html.write(html_content); temp_html_path = temp_html.name; and the
\* end of the with block, lines 767-769.  When the write raises, the with
\* block closes the file and the exception leaves the outer try: the inner
\* try, and its finally, are never entered.
WriteHtml(r) ==
    /\ pc[r] = "write"
    /\ \/ /\ fs' = [fs EXCEPT ![created[r]].content = html_content[r]]
          /\ temp_html_path' = [temp_html_path EXCEPT ![r] = created[r]]
          /\ pc' = [pc EXCEPT ![r] = "render"]
          /\ exc' = exc
       \/ /\ exc' = [exc EXCEPT ![r] = Some(WriteError)]
          /\ pc' = [pc EXCEPT ![r] = "pipeline_except"]
          /\ UNCHANGED <<fs, temp_html_path>>
    /\ UNCHANGED <<statusVars, composeVars, setupVars, callVars, configVars, op, body, html_content,
                   created, pdf_data, render_exc, returned, resp>>

\* pdfkit.from_file(path, False, options=..., configuration=...): the PDF of
\* the document the file holds
from_file(path, opts, configuration) == Pdf(fs[path].content, opts)

\* a plausible slip: a handler adjusts the shared options for its own call
OptionsAfterRender_Adjusted(opts) == [opts EXCEPT !.dpi = 96]

\* self.options is handed to pdfkit.from_file as it is, lines 778 and 781,
\* and is assigned nowhere outside __init__
OptionsAfterRender(opts) == opts

\* a plausible slip: the renderer is tried once more
AfterRender_Retry(r) == IF render_calls[r] = 0 THEN "render" ELSE "finally"

\* after pdfkit.from_file has returned or raised, control goes to the
\* finally block, lines 787-791: there is no loop around the call
AfterRender(r) == "finally"

\* lines 776-781: the renderer returns the PDF or raises
Render(r) ==
    /\ pc[r] = "render"
    /\ \/ /\ temp_html_path[r] \in DOMAIN fs
          /\ pdf_data' = [pdf_data EXCEPT ![r] =
                             Some(from_file(temp_html_path[r], options, pdfkit_config))]
          /\ UNCHANGED <<render_exc, exc>>
       \/ \E e \in RenderErrors :
             /\ render_exc' = [render_exc EXCEPT ![r] = Some(e)]
             /\ exc' = [exc EXCEPT ![r] = Some(e)]
             /\ pdf_data' = pdf_data
    /\ render_calls' = [render_calls EXCEPT ![r] = @ + 1]
    /\ options' = OptionsAfterRender(options)
    /\ pc' = [pc EXCEPT ![r] = AfterRender(r)]
    /\ UNCHANGED <<statusVars, composeVars, setupVars, compose_calls, pdfkit_config, fs,
                   op, body, html_content, created, temp_html_path, returned, resp>>

\* os.unlink(temp_html_path), line 790, when it succeeds
FileAfterCleanup(r) == [n \in DOMAIN fs \ {temp_html_path[r]} |-> fs[n]]

\* the finally block, lines 787-791, and the return of line 786: an
\* exception of os.unlink replaces the pending return value or exception
Finally(r) ==
    /\ pc[r] = "finally"
    /\ \/ /\ fs' = FileAfterCleanup(r)
          /\ IF exc[r] = None
             THEN /\ returned' = [returned EXCEPT ![r] = pdf_data[r]]
                  /\ pc' = [pc EXCEPT ![r] = "respond"]
             ELSE /\ returned' = returned
                  /\ pc' = [pc EXCEPT ![r] = "pipeline_except"]
          /\ exc' = exc
       \/ /\ temp_html_path[r] \in DOMAIN fs
          /\ exc' = [exc EXCEPT ![r] = Some(UnlinkError)]
          /\ pc' = [pc EXCEPT ![r] = "pipeline_except"]
          /\ UNCHANGED <<fs, returned>>
    /\ UNCHANGED <<statusVars, composeVars, setupVars, callVars, configVars, op, body, html_content,
                   created, temp_html_path, pdf_data, render_exc, resp>>

\* except Exception as e: logger.error(...); raise, lines 793-797
PipelineExcept(r) ==
    /\ pc[r] = "pipeline_except"
    /\ pc' = [pc EXCEPT ![r] = "except"]
    /\ UNCHANGED <<statusVars, composeVars, setupVars, callVars, configVars, fs, op, body, html_content,
                   created, temp_html_path, pdf_data, render_exc, returned, exc, resp>>

\* a plausible slip: the file is always named after the fallback
FilenameId_Unknown(data) == "unknown"

\* data.get('certificate_id', 'unknown'), lines 818 and 840
FilenameId(data) == Get(data, "certificate_id", "unknown")

\* the response of a handler whose try block ran to its end
SuccessResponse(r, now) ==
    IF op[r] = "generate_certificate"
    THEN JsonResponse(200,
            [success |-> TRUE,
             message |-> "Professional certificate generated successfully",
             pdf_base64 |-> b64encode(returned[r][1]),
             filename |-> "certificate_" \o FilenameId(body[r].data) \o ".pdf",
             generated_at |-> isoformat(now)])
    ELSE IF op[r] = "generate_certificate_file"
    THEN FileResponse(returned[r][1],
            "certificate_" \o FilenameId(body[r].data) \o "_" \o strftime_file(now)
               \o ".pdf")
    ELSE JsonResponse(200,
            [success |-> TRUE,
             html_content |-> html_content[r][1],
             message |-> "Professional certificate preview generated"])

\* lines 812-820, 840-847 and 866-870
Respond(r) ==
    /\ pc[r] = "respond"
    /\ \E now \in Clocks : resp' = [resp EXCEPT ![r] = SuccessResponse(r, now)]
    /\ pc' = [pc EXCEPT ![r] = "done"]
    /\ UNCHANGED <<statusVars, composeVars, setupVars, callVars, configVars, fs, op, body, html_content,
                   created, temp_html_path, pdf_data, render_exc, returned, exc>>

\* the text before str(e) in the handler's error message
FailurePrefix(route) ==
    IF route = "preview_certificate" THEN "Failed to generate preview: "
    ELSE "Failed to generate certificate: "

\* except Exception as e: return jsonify({'success': False, 'error': ...}), 500
HandleException(r) ==
    /\ pc[r] = "except"
    /\ resp' = [resp EXCEPT ![r] =
                   JsonResponse(500, [success |-> FALSE,
                                      error |-> FailurePrefix(op[r]) \o exc[r][1].text])]
    /\ pc' = [pc EXCEPT ![r] = "done"]
    /\ UNCHANGED <<statusVars, composeVars, setupVars, callVars, configVars, fs, op, body, html_content,
                   created, temp_html_path, pdf_data, render_exc, returned, exc>>

\* a plausible slip: the health answer looks at the renderer configuration
HealthStatus_ByRenderer == IF pdfkit_config = None THEN "degraded" ELSE "healthy"

\* 'status': 'healthy', line 883
HealthStatus == "healthy"

\* health_check, lines 879-886
HealthCheck(r) ==
    /\ pc[r] = "handler"
    /\ op[r] = "health_check"
    /\ \E now \in Clocks :
          resp' = [resp EXCEPT ![r] =
                      JsonResponse(200,
                         [status |-> HealthStatus,
                          service |-> "Professional Certificate Generator (wkhtmltopdf)",
                          timestamp |-> isoformat(now)])]
    /\ pc' = [pc EXCEPT ![r] = "done"]
    /\ UNCHANGED <<statusVars, composeVars, setupVars, callVars, configVars, fs, op, body, html_content,
                   created, temp_html_path, pdf_data, render_exc, returned, exc>>

\* test_endpoint, lines 888-896: get_json is called outside any try, so its
\* exception is answered by the framework
TestEndpoint(r) ==
    /\ pc[r] = "handler"
    /\ op[r] = "test_endpoint"
    /\ IF body[r].kind = "malformed"
       THEN resp' = [resp EXCEPT ![r] = FrameworkError(400)]
       ELSE \E now \in Clocks :
               resp' = [resp EXCEPT ![r] =
                           JsonResponse(200,
                              [message |-> "Professional Certificate API is working",
                               received_params |->
                                  IF NoData(body[r]) THEN 0 ELSE len(body[r].data),
                               timestamp |-> isoformat(now)])]
    /\ pc' = [pc EXCEPT ![r] = "done"]
    /\ UNCHANGED <<statusVars, composeVars, setupVars, callVars, configVars, fs, op, body, html_content,
                   created, temp_html_path, pdf_data, render_exc, returned, exc>>

Next ==
    \E r \in Requests :
        \/ Receive(r)
        \/ ParseRequest(r)
        \/ ComposeHtml(r)
        \/ CreateTempFile(r)
        \/ WriteHtml(r)
        \/ Render(r)
        \/ Finally(r)
        \/ PipelineExcept(r)
        \/ Respond(r)
        \/ HandleException(r)
        \/ HealthCheck(r)
        \/ TestEndpoint(r)

----------------------------------------------------------------------------
(* The status classification, claims C3 and C4. *)

\* the three classes the specification speaks of, read off the style
StatusClass(style) ==
    IF style = STYLE_PASS THEN "SUCCESS"
    ELSE IF style = STYLE_FAIL THEN "FAILURE"
    ELSE "UNKNOWN"

SuccessTokens == {"pass", "success", "complete"}
FailureTokens == {"fail", "error"}

HasToken(tokens, text) == \E tok \in tokens : Contains(tok, lower(text))

\* C3: get_status_badge_style is total on status texts: None or the empty
\* text is UNKNOWN; otherwise a text whose lower-cased form contains a
\* success token is SUCCESS, also when it contains a failure token too; else
\* one that contains a failure token is FAILURE; every other text is UNKNOWN.
C3_ClassificationOrder ==
    st_pc = "returned" =>
        /\ st_result \in {STYLE_NONE, STYLE_PASS, STYLE_FAIL, STYLE_OTHER}
        /\ IF st_text = None THEN StatusClass(st_result) = "UNKNOWN"
           ELSE LET text == st_text[1]
                IN  /\ text = "" => StatusClass(st_result) = "UNKNOWN"
                    /\ (text # "" /\ HasToken(SuccessTokens, text))
                          => StatusClass(st_result) = "SUCCESS"
                    /\ (text # "" /\ ~HasToken(SuccessTokens, text)
                                  /\ HasToken(FailureTokens, text))
                          => StatusClass(st_result) = "FAILURE"
                    /\ (~HasToken(SuccessTokens, text) /\ ~HasToken(FailureTokens, text))
                          => StatusClass(st_result) = "UNKNOWN"

\* a text with tokens of both vocabularies has been classified as SUCCESS
C3_Witness ==
    /\ st_pc = "returned"
    /\ st_text # None
    /\ HasToken(SuccessTokens, st_text[1])
    /\ HasToken(FailureTokens, st_text[1])
    /\ st_result = STYLE_PASS

\* the final_status attribute carries no known token, or is not there at all
NoKnownStatus(data) ==
    \/ "final_status" \notin DOMAIN data
    \/ data["final_status"] = ""
    \/ /\ ~HasToken(SuccessTokens, data["final_status"])
       /\ ~HasToken(FailureTokens, data["final_status"])

\* the style of a document composed without any final_status
NeutralStyle ==
    create_certificate_html(EmptyDict, CHOOSE t \in Clocks : TRUE,
                            CHOOSE u \in UuidHex : TRUE).status_badge_style

\* C4 as stated: the badge style is one of three styles, and an absent, empty
\* or unrecognised final_status always gets the one neutral style.
C4_ThreeStyles ==
    c_pc = "returned" =>
        /\ c_html.status_badge_style \in {STYLE_PASS, STYLE_FAIL, NeutralStyle}
        /\ NoKnownStatus(c_data) => c_html.status_badge_style = NeutralStyle

\* C4, amended: the badge style is one of four styles; an absent
\* final_status, or one with none of the known tokens, gets the amber style,
\* a present but empty final_status gets the grey style, and neither of the
\* two is the success style or the failure style.
C4_NeutralStyles ==
    c_pc = "returned" =>
        /\ c_html.status_badge_style \in {STYLE_NONE, STYLE_PASS, STYLE_FAIL, STYLE_OTHER}
        /\ NoKnownStatus(c_data) =>
              /\ c_html.status_badge_style \notin {STYLE_PASS, STYLE_FAIL}
              /\ c_html.status_badge_style =
                    IF "final_status" \in DOMAIN c_data /\ c_data["final_status"] = ""
                    THEN STYLE_NONE ELSE STYLE_OTHER
        /\ Cardinality({STYLE_NONE, STYLE_PASS, STYLE_FAIL, STYLE_OTHER}) = 4

\* a document composed from an empty final_status carries the grey style
C4_Witness ==
    /\ c_pc = "returned"
    /\ "final_status" \in DOMAIN c_data
    /\ c_data["final_status"] = ""
    /\ c_html.status_badge_style = STYLE_NONE

----------------------------------------------------------------------------
(* The defaults of the composer, claim C5. *)

\* the fields of the attribute set that are shown with a fallback text
NamedFields == PlainFields \cup {"supervisor_name", "technician_date", "supervisor_date"}

\* what the document shows in each slot that displays the field
SlotsShowing(html, field) ==
    (IF field \in PlainFields THEN {html.fields[field]} ELSE {})
    \cup (IF field = "technician_name" THEN {html.signature_technician_name} ELSE {})
    \cup (IF field = "supervisor_name" THEN {html.signature_supervisor_name} ELSE {})
    \cup (IF field = "technician_date" THEN {html.signature_technician_date} ELSE {})
    \cup (IF field = "supervisor_date" THEN {html.signature_supervisor_date} ELSE {})

\* C5 as stated: an absent field is shown as "N/A" in every slot that
\* displays it, and a present field is shown with the caller's value.
C5_EverySlotNA ==
    c_pc = "returned" =>
        \A field \in NamedFields : \A shown \in SlotsShowing(c_html, field) :
            shown = IF field \in DOMAIN c_data THEN c_data[field] ELSE "N/A"

\* C5, amended: each of the 32 fields of the info bar and the data sections
\* is shown there as "N/A" when absent and with the caller's value when
\* present, whatever other fields are present.  The signature block has its
\* own fallbacks: "John Smith" for technician_name, "Jane Doe" for
\* supervisor_name, and the first ten characters of the resolved issue date
\* for technician_date and supervisor_date.
C5_Defaults ==
    c_pc = "returned" =>
        /\ \A field \in PlainFields :
              c_html.fields[field] =
                 IF field \in DOMAIN c_data THEN c_data[field] ELSE "N/A"
        /\ c_html.signature_technician_name =
              IF "technician_name" \in DOMAIN c_data
              THEN c_data["technician_name"] ELSE "John Smith"
        /\ c_html.signature_supervisor_name =
              IF "supervisor_name" \in DOMAIN c_data
              THEN c_data["supervisor_name"] ELSE "Jane Doe"
        /\ c_html.signature_technician_date =
              IF "technician_date" \in DOMAIN c_data
              THEN c_data["technician_date"] ELSE Prefix(c_html.issue_date_field, 10)
        /\ c_html.signature_supervisor_date =
              IF "supervisor_date" \in DOMAIN c_data
              THEN c_data["supervisor_date"] ELSE Prefix(c_html.issue_date_field, 10)

\* a document composed without technician_name, with another field present
C5_Witness ==
    /\ c_pc = "returned"
    /\ "technician_name" \notin DOMAIN c_data
    /\ "device_type" \in DOMAIN c_data
    /\ c_html.fields["technician_name"] = "N/A"
    /\ c_html.fields["device_type"] = SampleData["device_type"]
    /\ c_html.signature_technician_name = "John Smith"

----------------------------------------------------------------------------
(* The display identifier, claims C6 and C7. *)

UpperHexDigits ==
    {"0", "1", "2", "3", "4", "5", "6", "7", "8", "9", "A", "B", "C", "D", "E", "F"}

\* the fixed prefix followed by 8 upper-case hex digits
IsSynthesized(id) ==
    /\ Len(id) = 13
    /\ SubSeq(id, 1, 5) = "CERT-"
    /\ \A i \in 6..13 : SubSeq(id, i, i) \in UpperHexDigits

\* C6: the display identifier is the caller's certificate_id when the key is
\* present with a non-empty value, and a synthesized identifier in every
\* other case.
C6_NonEmptyOrSynthesized ==
    c_pc = "returned" =>
        IF "certificate_id" \in DOMAIN c_data /\ c_data["certificate_id"] # ""
        THEN c_html.cert_id_field = c_data["certificate_id"]
        ELSE IsSynthesized(c_html.cert_id_field)

\* C7 as stated: every slot that shows the display identifier carries the
\* same value.
C7_SameInEverySlot ==
    c_pc = "returned" =>
        /\ c_html.title = c_html.cert_id_field
        /\ c_html.qr_code = c_html.cert_id_field
        /\ c_html.document_id = c_html.cert_id_field
        /\ c_html.verification = c_html.cert_id_field

\* C7, amended: the title, the certificate-ID field, the QR placeholder and
\* the footer document ID carry the one identifier resolved for the
\* invocation (the supplied one, or the one synthesized from the single uuid
\* drawn), and the verification link carries that identifier in lower case.
C7_OneIdentifier ==
    c_pc = "returned" =>
        LET cert_id == IF "certificate_id" \in DOMAIN c_data
                       THEN c_data["certificate_id"]
                       ELSE "CERT-" \o upper(SubSeq(c_uuid, 1, 8))
        IN  /\ c_html.cert_id_field = cert_id
            /\ c_html.title = cert_id
            /\ c_html.qr_code = cert_id
            /\ c_html.document_id = cert_id
            /\ c_html.verification = lower(cert_id)
            /\ "certificate_id" \notin DOMAIN c_data => IsSynthesized(cert_id)

\* a document with a synthesized identifier, whose link differs from it
C7_Witness ==
    /\ c_pc = "returned"
    /\ "certificate_id" \notin DOMAIN c_data
    /\ IsSynthesized(c_html.title)
    /\ c_html.document_id = c_html.title
    /\ c_html.verification # c_html.title

----------------------------------------------------------------------------
(* The render pipeline, claims C1, C2 and C10. *)

\* create_certificate has been called for the request and has returned or
\* raised to the handler
PipelineLeft(r) ==
    /\ op[r] \in RenderRoutes
    /\ html_content[r] # None
    /\ pc[r] \in {"respond", "except", "done"}

\* the temporary file this request's call created is still there
OwnFileExists(r) ==
    /\ created[r] \in DOMAIN fs
    /\ fs[created[r]].owner = r

\* C1: whichever way create_certificate exits, the temporary file it created
\* no longer exists once it has returned or raised.
C1_TempFileGone ==
    \A r \in Requests : PipelineLeft(r) => ~OwnFileExists(r)

\* C2: a failure to delete the temporary file never reaches the caller: the
\* call still returns the PDF when the renderer succeeded, and still raises
\* the renderer's own error when the renderer failed.
C2_CleanupFailureNotMasking ==
    \A r \in Requests :
        PipelineLeft(r) =>
            /\ pdf_data[r] # None => (returned[r] = pdf_data[r] /\ exc[r] = None)
            /\ render_exc[r] # None => exc[r] = render_exc[r]
            /\ exc[r] # None => exc[r][1].origin # "unlink"

\* C10: when the renderer fails, its error leaves the pipeline unchanged and
\* the request ends with a failure response (success false, a message that
\* contains the renderer's diagnostic text) that carries no PDF bytes.
C10_RenderFailureResponse ==
    \A r \in Requests :
        (pc[r] = "done" /\ render_exc[r] # None) =>
            /\ exc[r] = render_exc[r]
            /\ resp[r].kind = "json"
            /\ resp[r].status = 500
            /\ "success" \in DOMAIN resp[r].json
            /\ resp[r].json["success"] = FALSE
            /\ "error" \in DOMAIN resp[r].json
            /\ Contains(render_exc[r][1].text, resp[r].json["error"])
            /\ "pdf_base64" \notin DOMAIN resp[r].json
            /\ resp[r].file = None

----------------------------------------------------------------------------
(* The request boundary, claims C8 and C9. *)

\* C8 as stated: the identifier in the returned filename is the display
\* identifier of the document composed for the same request.
C8_FilenameShowsDisplayId ==
    \A r \in Requests :
        (pc[r] = "done" /\ resp[r].status = 200) =>
            /\ op[r] = "generate_certificate" =>
                  resp[r].json["filename"] =
                     "certificate_" \o html_content[r][1].cert_id_field \o ".pdf"
            /\ op[r] = "generate_certificate_file" =>
                  \E t \in Clocks :
                     resp[r].download_name =
                        "certificate_" \o html_content[r][1].cert_id_field \o "_"
                           \o strftime_file(t) \o ".pdf"

\* the identifier part of the filename of a successful response
FilenameIs(r, id) ==
    /\ op[r] = "generate_certificate" =>
          resp[r].json["filename"] = "certificate_" \o id \o ".pdf"
    /\ op[r] = "generate_certificate_file" =>
          \E t \in Clocks :
             resp[r].download_name =
                "certificate_" \o id \o "_" \o strftime_file(t) \o ".pdf"

\* C8, amended: when the request supplies certificate_id, the identifier in
\* the filename is that value, which is also the display identifier of the
\* request's document; when it supplies none, the filename carries the
\* literal "unknown" while the document shows a synthesized identifier.
C8_FilenameFromAttribute ==
    \A r \in Requests :
        (pc[r] = "done" /\ resp[r].status = 200 /\ op[r] \in RenderRoutes) =>
            IF "certificate_id" \in DOMAIN body[r].data
            THEN /\ FilenameIs(r, body[r].data["certificate_id"])
                 /\ html_content[r][1].cert_id_field = body[r].data["certificate_id"]
            ELSE /\ FilenameIs(r, "unknown")
                 /\ IsSynthesized(html_content[r][1].cert_id_field)

\* a request without certificate_id and one with it have both been answered
\* with a file name
C8_Witness ==
    \E r1, r2 \in Requests :
        /\ pc[r1] = "done" /\ resp[r1].status = 200
        /\ op[r1] = "generate_certificate"
        /\ "certificate_id" \notin DOMAIN body[r1].data
        /\ resp[r1].json["filename"] = "certificate_unknown.pdf"
        /\ pc[r2] = "done" /\ resp[r2].status = 200
        /\ op[r2] = "generate_certificate_file"
        /\ "certificate_id" \in DOMAIN body[r2].data

\* the routes that take an attribute set
AttributeRoutes == {"generate_certificate", "generate_certificate_file",
                    "preview_certificate", "test_endpoint"}

IsErrorResponse(response) == response.status >= 400

\* C9: on every route that takes an attribute set, a request without one is
\* answered with an error response, and every error response carries a
\* success flag and a message.
C9_MissingInputIsError ==
    \A r \in Requests :
        pc[r] = "done" =>
            /\ (op[r] \in AttributeRoutes /\ body[r].kind # "dict")
                  => IsErrorResponse(resp[r])
            /\ IsErrorResponse(resp[r]) =>
                  /\ resp[r].kind = "json"
                  /\ "success" \in DOMAIN resp[r].json
                  /\ DOMAIN resp[r].json \cap {"error", "message"} # {}

----------------------------------------------------------------------------
(* Claims about the calls a request makes. *)

\* the request has entered create_certificate and composed its document
Composed(r) ==
    /\ op[r] \in RenderRoutes
    /\ pc[r] \in {"tempfile", "write", "render", "finally", "pipeline_except",
                  "respond", "except", "done"}
    /\ html_content[r] # None

\* C11: within one generate or generate_file request the document is composed
\* exactly once and the renderer is invoked at most once; once the renderer
\* has failed it has been invoked exactly once and is never invoked again.
C11_ComposeOnceRenderAtMostOnce ==
    \A r \in Requests :
       op[r] \in RenderRoutes =>
          /\ compose_calls[r] <= 1
          /\ render_calls[r] <= 1
          /\ Composed(r) => compose_calls[r] = 1
          /\ render_exc[r] # None => render_calls[r] = 1
          /\ (pc[r] = "done" /\ resp[r].status = 200) =>
                compose_calls[r] = 1 /\ render_calls[r] = 1

\* a request whose renderer failed has been answered
C11_Witness ==
    \E r \in Requests :
       /\ op[r] \in RenderRoutes
       /\ render_exc[r] # None
       /\ pc[r] = "done"
       /\ compose_calls[r] = 1
       /\ render_calls[r] = 1

----------------------------------------------------------------------------
(* Claims about concurrent render pipeline calls. *)

\* the call of request r has created its temporary file and has not yet
\* gone through its finally block
HoldsFile(r) == pc[r] \in {"write", "render", "finally"}

\* the step is one of request r
StepOf(r) == pc'[r] # pc[r]

\* the files are isolated in this state: the calls that hold a file hold
\* different files, each file held is its call's own and, once written,
\* holds that call's document; a PDF is the rendering of its own call's
\* document
FilesIsolated ==
    /\ \A r \in Requests :
          HoldsFile(r) =>
             /\ OwnFileExists(r)
             /\ pc[r] \in {"render", "finally"} =>
                   /\ temp_html_path[r] = created[r]
                   /\ fs[created[r]].content = html_content[r]
    /\ \A r1, r2 \in Requests :
          (r1 # r2 /\ HoldsFile(r1) /\ HoldsFile(r2)) => created[r1] # created[r2]
    /\ \A r \in Requests :
          pdf_data[r] # None => pdf_data[r][1].document = html_content[r]

\* a step changes or removes only a file of the request that takes the step
TouchesOwnFileOnly ==
    /\ \A n \in DOMAIN fs \ DOMAIN fs' :
          \E r \in Requests :
             StepOf(r) /\ pc[r] = "finally" /\ n = created[r] /\ fs[n].owner = r
    /\ \A n \in DOMAIN fs \cap DOMAIN fs' :
          fs'[n] # fs[n] =>
             \E r \in Requests :
                StepOf(r) /\ n = created[r] /\ fs[n].owner = r /\ fs'[n].owner = r

\* C12: in every interleaving of concurrent render pipeline calls each call
\* uses its own uniquely named temporary file, its renderer reads the
\* document that call wrote, and no call overwrites or deletes a file of
\* another call.
C12_IsolatedTempFiles == [] FilesIsolated /\ [][TouchesOwnFileOnly]_vars

\* two calls hold their written files at the same time
C12_Witness ==
    \E r1, r2 \in Requests :
       /\ r1 # r2
       /\ pc[r1] = "finally"
       /\ pc[r2] = "render"
       /\ pdf_data[r1] # None
       /\ created[r1] # created[r2]
       /\ html_content[r1] # html_content[r2]

----------------------------------------------------------------------------
(* Claims about preview_certificate. *)

\* C13: a preview request only composes: it creates no temporary file, never
\* invokes the renderer, composes at most once, and its successful answer
\* carries the document the composer returns for the request's attribute set.
C13_PreviewOnlyComposes ==
    \A r \in Requests :
       op[r] = "preview_certificate" =>
          /\ created[r] = ""
          /\ temp_html_path[r] = ""
          /\ \A n \in DOMAIN fs : fs[n].owner # r
          /\ render_calls[r] = 0
          /\ pdf_data[r] = None
          /\ compose_calls[r] <= 1
          /\ (pc[r] = "done" /\ resp[r].status = 200) =>
                /\ compose_calls[r] = 1
                /\ resp[r].kind = "json"
                /\ "html_content" \in DOMAIN resp[r].json
                /\ \E now \in Clocks, u \in UuidHex :
                      resp[r].json.html_content =
                         create_certificate_html(body[r].data, now, u)

\* a preview has been answered with its document while the directory of
\* temporary files holds nothing
C13_Witness ==
    \E r \in Requests :
       /\ op[r] = "preview_certificate"
       /\ pc[r] = "done"
       /\ resp[r].status = 200
       /\ resp[r].json.html_content = html_content[r][1]
       /\ DOMAIN fs = {}

----------------------------------------------------------------------------
(* Claims about the composer as a whole. *)

\* the composer has returned at least once
Returned == c_pc \in {"returned", "returned_twice"}

\* the four styles get_status_badge_style returns
Styles == {STYLE_NONE, STYLE_PASS, STYLE_FAIL, STYLE_OTHER}

\* C14: for every attribute set of string keys and string values, the empty
\* one included, the composer never raises and returns a document that is
\* not empty: the generation time is filled in, the badge has one of the
\* four styles and every field slot has its text.
C14_ComposeNeverRaises ==
    /\ c_pc # "raised"
    /\ Returned =>
          /\ c_html # NoHtml
          /\ Len(c_html.generated) = 19
          /\ c_html.status_badge_style \in Styles
          /\ DOMAIN c_html.fields = PlainFields

\* the composer has returned a document for the empty attribute set
C14_Witness ==
    /\ c_pc = "returned"
    /\ c_data = EmptyDict
    /\ c_html # NoHtml
    /\ c_html.title # ""

----------------------------------------------------------------------------
(* Claims about the documents of two calls with the same attribute set. *)

\* the document without the footer's generation timestamp
WithoutGenerated(doc) == [doc EXCEPT !.generated = ""]

\* the document without the slots that show a reading of the clock for this
\* attribute set: the generation timestamp and, when issue_date is not
\* supplied, the issue date and the signature dates defaulted from it
WithoutClock(doc, data) ==
    IF "issue_date" \in DOMAIN data
    THEN WithoutGenerated(doc)
    ELSE [doc EXCEPT
            !.generated = "",
            !.issue_date_field = "",
            !.signature_technician_date =
               IF "technician_date" \in DOMAIN data THEN @ ELSE "",
            !.signature_supervisor_date =
               IF "supervisor_date" \in DOMAIN data THEN @ ELSE ""]

\* a generate and a generate_file request with the same attribute set, whose
\* renderers have both returned
RenderedPair(r1, r2) ==
    /\ op[r1] = "generate_certificate"
    /\ op[r2] = "generate_certificate_file"
    /\ body[r1] = body[r2]
    /\ pdf_data[r1] # None
    /\ pdf_data[r2] # None

\* the document and the parameters the renderer of request r was handed
RenderedDocument(r) == pdf_data[r][1].document[1]
RenderedOptions(r) == pdf_data[r][1].options

C16_IdempotentWhenPinned ==
    (/\ c_pc = "returned_twice"
     /\ {"certificate_id", "issue_date"} \subseteq DOMAIN c_data)
       => WithoutGenerated(c_html) = WithoutGenerated(c_html2)

\* composed twice at different readings of the clock, identifier and issue
\* date supplied, the two footers differ
C16_Witness ==
    /\ c_pc = "returned_twice"
    /\ {"certificate_id", "issue_date"} \subseteq DOMAIN c_data
    /\ c_now # c_now2
    /\ c_html.generated # c_html2.generated
    /\ c_html # c_html2

----------------------------------------------------------------------------
(* Claims about the display timestamp. *)

\* the text has the shape YYYY-MM-DD HH:MM:SS
DisplayFormat(s) ==
    /\ Len(s) = 19
    /\ SubSeq(s, 5, 5) = "-" /\ SubSeq(s, 8, 8) = "-"
    /\ SubSeq(s, 11, 11) = " "
    /\ SubSeq(s, 14, 14) = ":" /\ SubSeq(s, 17, 17) = ":"

\* the signature date slots and the keys that supply them
SignatureDates ==
    {<<"technician_date", c_html.signature_technician_date>>,
     <<"supervisor_date", c_html.signature_supervisor_date>>}

\* C17: the issue date shown is the caller's issue_date when that key is
\* present, and otherwise the clock reading of the call, formatted as
\* YYYY-MM-DD HH:MM:SS; a signature date that is not supplied is the first ten
\* characters of that same resolved timestamp.
C17_DisplayTimestamp ==
    Returned =>
       /\ "issue_date" \in DOMAIN c_data =>
             c_html.issue_date_field = c_data["issue_date"]
       /\ "issue_date" \notin DOMAIN c_data =>
             /\ c_html.issue_date_field = strftime_display(c_now)
             /\ c_html.issue_date_field = c_html.generated
             /\ DisplayFormat(c_html.issue_date_field)
       /\ \A sd \in SignatureDates :
             IF sd[1] \in DOMAIN c_data
             THEN sd[2] = c_data[sd[1]]
             ELSE sd[2] = Prefix(c_html.issue_date_field, 10)

\* a supplied issue date is shown, with a signature date taken from it, at a
\* clock reading of another day
C17_Witness ==
    /\ c_pc = "returned"
    /\ "issue_date" \in DOMAIN c_data
    /\ "technician_date" \notin DOMAIN c_data
    /\ c_html.issue_date_field = "2024-03-15 14:30:00"
    /\ c_html.signature_technician_date = "2024-03-15"
    /\ c_html.generated = "2025-11-30 23:59:58"

----------------------------------------------------------------------------
(* Claims about the state the requests share. *)

\* everything the handling of request r keeps: the locals of its handler and
\* of its call of create_certificate
Locals(r) ==
    <<pc[r], op[r], body[r], html_content[r], created[r], temp_html_path[r],
      pdf_data[r], render_exc[r], returned[r], exc[r], resp[r],
      compose_calls[r], render_calls[r]>>

\* a step leaves the renderer configuration as it is and changes the locals
\* of no request but the one that takes it
ConfigurationReadOnly ==
    /\ pdfkit_config' = pdfkit_config
    /\ options' = options
    /\ \A r \in Requests : StepOf(r) \/ Locals(r)' = Locals(r)
    /\ Cardinality({r \in Requests : StepOf(r)}) <= 1

\* C18: the renderer configuration (resolved path and presentation
\* parameters) has the value given at construction in every state and is
\* changed by no step of any request, successful or failed; a step of one
\* request changes nothing another request keeps.
C18_ConfigurationSetOnce ==
    /\ [] (options = RendererOptions)
    /\ [] (\E env \in Environments : pdfkit_config = setup_wkhtmltopdf_config(env))
    /\ [][ConfigurationReadOnly]_vars

\* a render request has been answered with its PDF and another with a
\* renderer failure, on a machine with a configured renderer path
C18_Witness ==
    \E r1, r2 \in Requests :
       /\ pc[r1] = "done" /\ resp[r1].status = 200 /\ op[r1] \in RenderRoutes
       /\ pc[r2] = "done" /\ resp[r2].status = 500 /\ render_exc[r2] # None
       /\ pdfkit_config # None
       /\ options = RendererOptions

----------------------------------------------------------------------------
(* Claims about the construction of the generator. *)

\* the listed locations of the machine, in list order, that exist
ListedAndExisting ==
    LET paths == possible_paths(s_env.username)
    IN  {i \in 1..Len(paths) : paths[i] \in s_env.existing}

\* C19: once the generator is constructed, the renderer path configured is
\* the first location of the list that exists when one exists, and when none
\* exists the configuration is left empty, which makes pdfkit use the
\* unqualified wkhtmltopdf of the environment; construction completes in
\* both cases.
C19_FirstExistingOrFallback ==
    s_pc = "constructed" =>
       LET paths == possible_paths(s_env.username)
       IN  /\ ListedAndExisting = {} => s_config = None
           /\ ListedAndExisting # {} =>
                 /\ s_config # None
                 /\ \E i \in ListedAndExisting :
                       /\ s_config[1].wkhtmltopdf = paths[i]
                       /\ \A j \in 1..(i - 1) : paths[j] \notin s_env.existing

\* constructed where the second and the fourth listed location exist: the
\* second is configured
C19_Witness ==
    /\ s_pc = "constructed"
    /\ ListedAndExisting = {2, 4}
    /\ s_config = Some([wkhtmltopdf |-> possible_paths(s_env.username)[2]])

\* constructed where the renderer is installed at no listed location
C19_WitnessFallback ==
    /\ s_pc = "constructed"
    /\ s_env.existing = {OtherPath}
    /\ s_config = None

----------------------------------------------------------------------------
(* Claims about health_check. *)

\* C20: whatever the renderer configuration and whatever the other requests
\* are doing or have done, a health request is answered 200 with status
\* "healthy", and it composes nothing, renders nothing and creates no file.
C20_HealthAlwaysHealthy ==
    \A r \in Requests :
       (op[r] = "health_check" /\ pc[r] # "idle") =>
          /\ pc[r] \in {"handler", "done"}
          /\ compose_calls[r] = 0
          /\ render_calls[r] = 0
          /\ html_content[r] = None
          /\ created[r] = ""
          /\ exc[r] = None
          /\ pc[r] = "done" =>
                /\ resp[r].status = 200
                /\ resp[r].kind = "json"
                /\ resp[r].json.status = "healthy"

\* health has answered "healthy" with no renderer path configured, while the
\* renderer of another request has just failed and its file is still there
C20_Witness ==
    \E r1, r2 \in Requests :
       /\ op[r1] = "health_check"
       /\ pc[r1] = "done"
       /\ resp[r1].json.status = "healthy"
       /\ pdfkit_config = None
       /\ pc[r2] = "finally"
       /\ render_exc[r2] # None
       /\ OwnFileExists(r2)

----------------------------------------------------------------------------
(* Claims about the order of the steps of create_certificate. *)

\* the renderer is invoked only on a file this call has written and closed
WrittenBeforeRender(r) ==
    (pc[r] = "render" \/ render_calls[r] > 0) =>
       /\ created[r] # ""
       /\ temp_html_path[r] = created[r]
       /\ pc[r] = "render" =>
             /\ OwnFileExists(r)
             /\ fs[created[r]].content = html_content[r]

\* the file of this call is deleted only after its renderer has returned its
\* output or raised
CapturedBeforeDelete(r) ==
    (created[r] # "" /\ created[r] \notin DOMAIN fs) =>
       /\ render_calls[r] = 1
       /\ pdf_data[r] # None \/ render_exc[r] # None

\* once the call has returned or raised, its file is gone
DeletedBeforeExit(r) == PipelineLeft(r) => ~OwnFileExists(r)

\* C21: in every render pipeline call the document is written and the file
\* closed before the renderer is invoked, the renderer's output is captured
\* before the file is deleted, and the file is deleted before the call
\* returns or raises.
C21_StepOrder ==
    \A r \in Requests :
       op[r] \in RenderRoutes =>
          /\ WrittenBeforeRender(r)
          /\ CapturedBeforeDelete(r)
          /\ DeletedBeforeExit(r)

----------------------------------------------------------------------------
(* Claims about an empty attribute set. *)

\* the routes whose handler tests  if not data
GuardedRoutes == RenderRoutes \cup {"preview_certificate"}

\* the request carries a JSON object without keys
EmptyAttributes(r) == body[r].kind = "dict" /\ DOMAIN body[r].data = {}

\* the request carries the JSON null: no attribute set
NoAttributes(r) == body[r].kind = "null"

\* C22: a generate, generate_file or preview request whose attribute set is
\* present but empty is handled like one with no attribute set: it is
\* answered 400 with the error "No data provided", and it never composes,
\* renders or creates a file.
C22_EmptyLikeMissing ==
    \A r \in Requests :
       (/\ op[r] \in GuardedRoutes
        /\ pc[r] # "idle"
        /\ EmptyAttributes(r) \/ NoAttributes(r)) =>
          /\ pc[r] \in {"handler", "done"}
          /\ compose_calls[r] = 0
          /\ render_calls[r] = 0
          /\ html_content[r] = None
          /\ created[r] = ""
          /\ exc[r] = None
          /\ pc[r] = "done" =>
                resp[r] = JsonResponse(400, [error |-> "No data provided"])

\* the same route has answered an empty attribute set and a missing one, with
\* the same response
C22_Witness ==
    \E r1, r2 \in Requests :
       /\ op[r1] \in GuardedRoutes
       /\ op[r2] = op[r1]
       /\ EmptyAttributes(r1)
       /\ NoAttributes(r2)
       /\ pc[r1] = "done"
       /\ pc[r2] = "done"
       /\ resp[r1].status = 400
       /\ resp[r1] = resp[r2]

----------------------------------------------------------------------------
(* The specifications. *)

\* get_status_badge_style applied to every status text of the bounded set
InitStatus == StatusInit /\ ComposeParked /\ SetupParked /\ ServiceParked

SpecStatus == InitStatus /\ [][StatusNext]_vars

\* create_certificate_html applied to every attribute set of the bounded set
InitCompose == ComposeInit /\ StatusParked /\ SetupParked /\ ServiceParked

SpecCompose == InitCompose /\ [][ComposeNext]_vars

\* the service: the requests, each handled step by step, in any interleaving
Init == ServiceInit /\ StatusParked /\ ComposeParked /\ SetupParked

Spec == Init /\ [][Next]_vars

\* the generator constructed on every machine of the bounded set
InitSetup == SetupInit /\ StatusParked /\ ComposeParked /\ ServiceParked

SpecSetup == InitSetup /\ [][SetupNext]_vars

====
